---- MODULE Spec2Model ----
(***************************************************************************)
(* Model of FinieAgent (src/src/agents/finie.py): the session object with  *)
(* its conversation_history, the query method that drives the compiled     *)
(* LangGraph workflow (agent node -> conditional edge -> tools node ->     *)
(* agent node ...) under a recursion limit, clear_history, and the market  *)
(* data tools (src/src/tools/market_data.py) the tools node executes.      *)
(*                                                                         *)
(* One query is a sequence of supersteps of the graph runtime: each        *)
(* execution of the agent node (one model call) and each execution of the  *)
(* tools node (all tool calls of the last assistant message) is one        *)
(* superstep, and recursion_limit caps the number of supersteps.           *)
(***************************************************************************)
EXTENDS Integers, Sequences, FiniteSets, TLC

\* ------------------------------------------------------------------ bounds
MaxQueries == 2      \* queries issued in one session
MaxIterations == 3   \* largest configured config['agent']['max_iterations']
MaxCalls == 2        \* tool calls one assistant message may request

\* ------------------------------------------------------------ input domains
\* The question of the n-th query of the session (each query asks a new one).
Question(n) == <<"q1", "q2", "q3", "q4">>[n]
Contents == {"", "a"}      \* assistant message content ("" = no content)
NoId == 0                  \* tool_call_id of a message that answers no call
NotCleared == 0 - 1
NoAnswer == "<no answer>"   \* query has returned nothing

\* MARKET_DATA_TOOLS, in registry order.
MARKET_DATA_TOOLS ==
    <<"get_stock_price", "get_fundamental_metrics",
      "get_company_news", "get_earnings_data">>

ALL_TOOLS == MARKET_DATA_TOOLS

VARIABLES
    conversation_history,  \* self.conversation_history: list of {role, content}
    messages,              \* AgentState["messages"] of the running / last query
    pc,                    \* "idle", or the graph node to run next: "agent", "tools", "end"
    step,                  \* supersteps executed by graph.invoke in this query
    max_iterations,        \* config['agent']['max_iterations']
    question,              \* the argument of the running / last query
    outcome,               \* how the last operation ended
    returned,              \* what query returned (when outcome = "done")
    nqueries,              \* queries issued so far
    model_calls,           \* model invocations of this query
    tool_rounds,           \* executions of the tools node in this query
    provider_raised,       \* ids of tool calls whose data-provider call raised
    hist_before,           \* conversation_history when this query started
    outs,                  \* messages the model and the tools produced in this query
    done_log,              \* <<question, returned>> of DONE queries since the last clear
    cleared,               \* messages the last clear_history discarded, NotCleared
                           \* once a query has been recorded since
    started_cleared,       \* `cleared` when this query started
    model_failures         \* model calls of this query that raised

vars == <<conversation_history, messages, pc, step, max_iterations, question,
          outcome, returned, nqueries, model_calls, tool_rounds,
          provider_raised, hist_before, outs, done_log, cleared,
          started_cleared, model_failures>>

\* --------------------------------------------------------------- messages
SYSTEM_MESSAGE == "system_message"

\* A dict as query builds it: {"role": ..., "content": ...}.
Dict(role, content) == [role |-> role, content |-> content]

\* The message object the graph state holds for a {role, content} dict.
ToMessage(d) ==
    [role |-> d.role, content |-> d.content, tool_calls |-> <<>>,
     tool_call_id |-> NoId, name |-> ""]

AIMessage(content, tool_calls) ==
    [role |-> "assistant", content |-> content, tool_calls |-> tool_calls,
     tool_call_id |-> NoId, name |-> ""]

ToolMessage(content, tool_call_id, name) ==
    [role |-> "tool", content |-> content, tool_calls |-> <<>>,
     tool_call_id |-> tool_call_id, name |-> name]

Last(s) == s[Len(s)]

\* The reducer of AgentState.messages. Every message a node returns carries
\* a fresh message id, so the reducer's merge-by-id never replaces.
add_messages_overwrite(left, right) == right
add_messages(left, right) == left \o right

\* ------------------------------------------------------------------ tools
\* What a tool function hands to the tools node: the string it returns, or
\* the fact that it raised.
Returned(content) == [raised |-> FALSE, content |-> content]
Raised == [raised |-> TRUE, content |-> ""]

\* get_stock_price: the whole body is inside try/except Exception.
get_stock_price_no_except(provider_raises) ==
    IF provider_raises THEN Raised ELSE Returned("Stock Price Data")
get_stock_price(provider_raises) ==
    IF provider_raises
    THEN Returned("Error fetching data")
    ELSE Returned("Stock Price Data")

get_fundamental_metrics(provider_raises) ==
    IF provider_raises
    THEN Returned("Error fetching fundamentals")
    ELSE Returned("Fundamental Metrics")

get_company_news(provider_raises) ==
    IF provider_raises
    THEN Returned("Error fetching news")
    ELSE Returned("Recent News")

get_earnings_data(provider_raises) ==
    IF provider_raises
    THEN Returned("Error fetching earnings data")
    ELSE Returned("Earnings Data")

ErrorContents ==
    {"Error fetching data", "Error fetching fundamentals",
     "Error fetching news", "Error fetching earnings data"}

\* The tool of ALL_TOOLS registered under `name`, invoked.
InvokeTool(name, provider_raises) ==
    CASE name = "get_stock_price" -> get_stock_price(provider_raises)
      [] name = "get_fundamental_metrics" -> get_fundamental_metrics(provider_raises)
      [] name = "get_company_news" -> get_company_news(provider_raises)
      [] name = "get_earnings_data" -> get_earnings_data(provider_raises)

\* ToolNode(ALL_TOOLS) on the tool calls of the last assistant message: one
\* outcome per call, in the order of the calls. raises[i] says whether the
\* data provider raises during call i.
ToolOutcomes(tool_calls, raises) ==
    [i \in 1..Len(tool_calls) |-> InvokeTool(tool_calls[i].name, raises[i])]

ToolNode_reversed(tool_calls, raises) ==
    [i \in 1..Len(tool_calls) |->
        LET j == Len(tool_calls) + 1 - i
        IN  ToolMessage(InvokeTool(tool_calls[j].name, raises[j]).content,
                        tool_calls[j].id, tool_calls[j].name)]
ToolNode_first_only(tool_calls, raises) ==
    <<ToolMessage(InvokeTool(tool_calls[1].name, raises[1]).content,
                  tool_calls[1].id, tool_calls[1].name)>>
ToolNode(tool_calls, raises) ==
    [i \in 1..Len(tool_calls) |->
        ToolMessage(ToolOutcomes(tool_calls, raises)[i].content,
                    tool_calls[i].id, tool_calls[i].name)]

\* ------------------------------------------------------------- the model
\* Tool calls requested so far in this query (call ids are fresh).
CallsSoFar(msgs) ==
    Cardinality({<<i, j>> \in (1..Len(msgs)) \X (1..MaxCalls + 1) :
                    j <= Len(msgs[i].tool_calls)})

\* The k tool calls of one assistant message: fresh ids, registered tools.
ToolCalls(k, base) ==
    [i \in 1..k |->
        [id |-> base + i,
         name |-> ALL_TOOLS[((base + i - 1) % Len(ALL_TOOLS)) + 1]]]

\* What llm_with_tools.invoke may answer to `msgs`.
Responses(msgs) ==
    {AIMessage(c, ToolCalls(k, CallsSoFar(msgs))) :
        c \in Contents, k \in 0..MaxCalls}

\* _should_continue
should_continue_inverted(state) ==
    IF Last(state).tool_calls = <<>> THEN "continue" ELSE "end"
should_continue(state) ==
    IF Last(state).tool_calls = <<>> THEN "end" ELSE "continue"

\* The conditional edge out of the agent node: "continue" -> tools, "end" -> END.
NextNode(state) ==
    IF should_continue(state) = "continue" THEN "tools" ELSE "end"

\* --------------------------------------------------------------- query
\* The messages query hands to graph.invoke.
BuildMessages(history, q) ==
    <<Dict("system", SYSTEM_MESSAGE)>> \o history \o <<Dict("user", q)>>

\* conversation_history after a query whose final message is final_message.
UpdateHistory_all(history, q, result) ==
    history \o <<Dict("user", q)>>
            \o [i \in 1..Len(result) |-> Dict(result[i].role, result[i].content)]
UpdateHistory(history, q, result) ==
    history \o <<Dict("user", q), Dict("assistant", Last(result).content)>>

\* The recursion limit of the graph runtime: recursion_limit supersteps may
\* run; with a node still to run after that many, graph.invoke raises
\* GraphRecursionError.
StepsLeft_per_round_trip == step < 2 * max_iterations + 1
StepsLeft == step < max_iterations
OutOfSteps == ~StepsLeft

\* ------------------------------------------------------------------ state
Init ==
    /\ conversation_history = <<>>
    /\ messages = <<>>
    /\ pc = "idle"
    /\ step = 0
    /\ max_iterations \in 1..MaxIterations   \* a recursion_limit below 1 is rejected
    /\ question = ""
    /\ outcome = "none"
    /\ returned = NoAnswer
    /\ nqueries = 0
    /\ model_calls = 0
    /\ tool_rounds = 0
    /\ provider_raised = {}
    /\ hist_before = <<>>
    /\ outs = <<>>
    /\ done_log = <<>>
    /\ cleared = NotCleared
    /\ started_cleared = NotCleared
    /\ model_failures = 0

Bookkeeping ==
    <<max_iterations, nqueries, hist_before, started_cleared, model_failures>>

\* query(question), up to the point where graph.invoke runs its first node.
Query(q) ==
    /\ pc = "idle"
    /\ nqueries < MaxQueries
    /\ q = Question(nqueries + 1)
    /\ messages' = add_messages(<<>>,
                       [i \in 1..Len(BuildMessages(conversation_history, q)) |->
                           ToMessage(BuildMessages(conversation_history, q)[i])])
    /\ pc' = "agent"
    /\ step' = 0
    /\ question' = q
    /\ outcome' = "running"
    /\ returned' = NoAnswer
    /\ nqueries' = nqueries + 1
    /\ model_calls' = 0
    /\ tool_rounds' = 0
    /\ provider_raised' = {}
    /\ hist_before' = conversation_history
    /\ outs' = <<>>
    /\ started_cleared' = cleared
    /\ model_failures' = 0
    /\ UNCHANGED <<conversation_history, max_iterations, done_log, cleared>>

\* The agent node (_call_model) and the conditional edge after it.
CallModel(response) ==
    /\ pc = "agent"
    /\ StepsLeft
    /\ messages' = add_messages(messages, <<response>>)
    /\ outs' = Append(outs, response)
    /\ pc' = NextNode(messages')
    /\ step' = step + 1
    /\ model_calls' = model_calls + 1
    /\ UNCHANGED <<conversation_history, question, outcome, returned,
                   tool_rounds, provider_raised, done_log, cleared,
                   Bookkeeping>>

\* llm_with_tools.invoke raises: nothing catches it in _call_model,
\* graph.invoke or query.
ModelUnavailable_retry ==
    /\ pc = "agent"
    /\ model_calls' = model_calls + 1
    /\ model_failures' = model_failures + 1
    /\ UNCHANGED <<conversation_history, messages, pc, step, question,
                   outcome, returned, tool_rounds, provider_raised, outs,
                   done_log, cleared, max_iterations, nqueries, hist_before,
                   started_cleared>>
ModelUnavailable ==
    /\ pc = "agent"
    /\ pc' = "idle"
    /\ outcome' = "model_error"
    /\ model_calls' = model_calls + 1
    /\ model_failures' = model_failures + 1
    /\ UNCHANGED <<conversation_history, messages, step, question, returned,
                   tool_rounds, provider_raised, outs, done_log, cleared,
                   max_iterations, nqueries, hist_before, started_cleared>>

\* The tool calls the tools node is about to execute.
PendingCalls == IF pc = "tools" THEN Last(messages).tool_calls ELSE <<>>

\* The tools node, then the edge back to the agent node. A tool that
\* raises is not caught by anything this repository configures.
RunTools(raises) ==
    /\ pc = "tools"
    /\ StepsLeft
    /\ tool_rounds' = tool_rounds + 1
    /\ provider_raised' = provider_raised \cup
           {PendingCalls[i].id : i \in {j \in DOMAIN raises : raises[j]}}
    /\ IF \E i \in DOMAIN raises :
             ToolOutcomes(PendingCalls, raises)[i].raised
       THEN /\ pc' = "idle"
            /\ outcome' = "tool_error"
            /\ UNCHANGED <<messages, outs, step>>
       ELSE /\ messages' = add_messages(messages,
                               ToolNode(PendingCalls, raises))
            /\ outs' = outs \o ToolNode(PendingCalls, raises)
            /\ pc' = "agent"
            /\ step' = step + 1
            /\ UNCHANGED outcome
    /\ UNCHANGED <<conversation_history, question, returned, model_calls,
                   done_log, cleared, Bookkeeping>>

\* graph.invoke raises GraphRecursionError; query does not catch it, so the
\* lines after graph.invoke do not run. Whether the runtime still executes
\* the pending node once before it raises is not decided by this repository:
\* `overrun` admits both. What an overrun node produces is lost with the
\* graph state when the error is raised; only the call itself has happened.
RecursionLimit_history_first(overrun) ==
    /\ pc \in {"agent", "tools"}
    /\ OutOfSteps
    /\ pc' = "idle"
    /\ outcome' = "aborted"
    /\ conversation_history' = Append(conversation_history, Dict("user", question))
    /\ model_calls' = IF overrun /\ pc = "agent" THEN model_calls + 1 ELSE model_calls
    /\ tool_rounds' = IF overrun /\ pc = "tools" THEN tool_rounds + 1 ELSE tool_rounds
    /\ UNCHANGED <<messages, step, question, returned,
                   provider_raised, outs, done_log, cleared, Bookkeeping>>
RecursionLimit(overrun) ==
    /\ pc \in {"agent", "tools"}
    /\ OutOfSteps
    /\ pc' = "idle"
    /\ outcome' = "aborted"
    /\ model_calls' = IF overrun /\ pc = "agent" THEN model_calls + 1 ELSE model_calls
    /\ tool_rounds' = IF overrun /\ pc = "tools" THEN tool_rounds + 1 ELSE tool_rounds
    /\ UNCHANGED <<conversation_history, messages, step, question, returned,
                   provider_raised, outs, done_log, cleared, Bookkeeping>>

\* graph.invoke returns; query records the exchange and returns the content.
Return ==
    /\ pc = "end"
    /\ conversation_history' = UpdateHistory(conversation_history, question, messages)
    /\ returned' = Last(messages).content
    /\ outcome' = "done"
    /\ pc' = "idle"
    /\ done_log' = Append(done_log, <<question, Last(messages).content>>)
    /\ cleared' = NotCleared
    /\ UNCHANGED <<messages, step, question, model_calls, tool_rounds,
                   provider_raised, outs, Bookkeeping>>

\* clear_history()
clear_history_noop ==
    /\ pc = "idle"
    /\ outcome' = "cleared"
    /\ done_log' = <<>>
    /\ cleared' = Len(conversation_history)
    /\ UNCHANGED <<conversation_history, pc, messages, step, question,
                   returned, model_calls, tool_rounds, provider_raised, outs,
                   Bookkeeping>>
clear_history ==
    /\ pc = "idle"
    /\ conversation_history' = <<>>
    /\ outcome' = "cleared"
    /\ done_log' = <<>>
    /\ cleared' = Len(conversation_history)
    /\ UNCHANGED <<pc, messages, step, question, returned, model_calls,
                   tool_rounds, provider_raised, outs, Bookkeeping>>

Next ==
    \/ \E q \in {Question(n) : n \in 1..MaxQueries} : Query(q)
    \/ \E response \in Responses(messages) : CallModel(response)
    \/ ModelUnavailable
    \/ \E raises \in [DOMAIN PendingCalls -> BOOLEAN] : RunTools(raises)
    \/ \E overrun \in BOOLEAN : RecursionLimit(overrun)
    \/ Return
    \/ clear_history

Spec == Init /\ [][Next]_vars
\* ------------------------------------------------------------ properties
AssistantIndexes == {i \in 1..Len(messages) : messages[i].role = "assistant"}

\* The query under way, or the last one, never got a content-only answer.
NeverContentOnly ==
    \A i \in 1..Len(outs) :
        outs[i].role = "assistant" => outs[i].tool_calls # <<>>

\* C1: with max iterations = 2 and a model that asks for a tool call on
\* every turn, the query is aborted after two model calls and two tool
\* round-trips.
C1_AbortsAfterSecondRoundTrip ==
    (max_iterations = 2 /\ outcome = "aborted" /\ NeverContentOnly)
        => (model_calls = 2 /\ tool_rounds = 2)

\* C2: a query never makes more model invocations than max_iterations; a
\* query stopped by the limit is aborted without a content-only answer
\* having been produced, and returns no answer.
C2_IterationsCapped ==
    /\ model_calls <= max_iterations
    /\ step <= max_iterations
    /\ (pc \in {"agent", "tools"} /\ OutOfSteps) =>
           /\ ~ENABLED (\E response \in Responses(messages) : CallModel(response))
           /\ ~ENABLED (\E raises \in [DOMAIN PendingCalls -> BOOLEAN] : RunTools(raises))
    /\ outcome = "aborted" =>
          /\ pc = "idle"
          /\ returned = NoAnswer
          /\ step = max_iterations
          /\ ~(Last(messages).role = "assistant" /\ Last(messages).tool_calls = <<>>)

C2_Witness ==
    outcome = "aborted" /\ model_calls = max_iterations /\ max_iterations > 1

\* The tool-result messages that answer call id `id`.
AnswersTo(id) ==
    {j \in 1..Len(messages) :
        messages[j].role = "tool" /\ messages[j].tool_call_id = id}

\* C3: when a query is DONE, every tool call requested by an assistant
\* message has exactly one tool-result message, placed before the terminal
\* assistant message.
C3_EveryCallAnsweredOnce ==
    outcome = "done" =>
        \A i \in AssistantIndexes :
            \A c \in DOMAIN messages[i].tool_calls :
                /\ Cardinality(AnswersTo(messages[i].tool_calls[c].id)) = 1
                /\ \A j \in AnswersTo(messages[i].tool_calls[c].id) :
                       i < j /\ j < Len(messages)

C3_Witness ==
    /\ outcome = "done"
    /\ tool_rounds > 0
    /\ \E i \in AssistantIndexes : Len(messages[i].tool_calls) > 1

\* C4: once the tools node has run for an assistant message, the messages
\* right after it are the results of its tool calls, in request order, and
\* the next assistant message comes after all of them.
C4_ResultsInRequestOrder ==
    \A i \in AssistantIndexes :
        LET calls == messages[i].tool_calls
        IN  (calls # <<>> /\ Len(messages) > i) =>
                /\ Len(messages) >= i + Len(calls)
                /\ \A c \in DOMAIN calls :
                       /\ messages[i + c].role = "tool"
                       /\ messages[i + c].tool_call_id = calls[c].id
                       /\ messages[i + c].name = calls[c].name

C4_Witness ==
    \E i \in AssistantIndexes :
        /\ Len(messages[i].tool_calls) > 1
        /\ Len(messages) > i + Len(messages[i].tool_calls)
        /\ messages[i + Len(messages[i].tool_calls) + 1].role = "assistant"

\* C5: when a query is aborted by the iteration limit, conversation_history
\* is what it was before the query, and query returns nothing.
C5_AbortLeavesHistory ==
    outcome = "aborted" =>
        conversation_history = hist_before /\ returned = NoAnswer

C5_Witness ==
    outcome = "aborted" /\ hist_before # <<>>

\* The history that the DONE queries since the last clear should have left.
PairsOf(log) ==
    [i \in 1..2 * Len(log) |->
        IF i % 2 = 1
        THEN Dict("user", log[(i + 1) \div 2][1])
        ELSE Dict("assistant", log[i \div 2][2])]

\* C6: conversation_history is exactly the (user, assistant) pairs of the
\* queries that reached DONE since the last clear, in order, each with the
\* question and the returned content, and nothing else.
C6_HistoryIsPairs ==
    /\ conversation_history = PairsOf(done_log)
    /\ \A i \in DOMAIN conversation_history :
           /\ DOMAIN conversation_history[i] = {"role", "content"}
           /\ conversation_history[i].role = IF i % 2 = 1 THEN "user" ELSE "assistant"
    /\ outcome = "done" =>
           /\ conversation_history[Len(conversation_history) - 1] = Dict("user", question)
           /\ Last(conversation_history) = Dict("assistant", returned)

C6_Witness ==
    /\ Len(conversation_history) = 4
    /\ outcome = "done"
    /\ tool_rounds > 0
    /\ conversation_history[2].content # conversation_history[4].content

\* The state a brand-new session's first query(q) reaches when the model
\* and the tools produce `produced`.
FreshSessionState(q, produced) ==
    [i \in 1..2 |-> ToMessage(BuildMessages(<<>>, q)[i])] \o produced

\* C7: a query issued after clear_history runs on the state a brand-new
\* session would have, and leaves the history a brand-new session would.
C7_ClearThenQueryIsFresh ==
    (started_cleared # NotCleared /\ outcome # "cleared") =>
        /\ messages = FreshSessionState(question, outs)
        /\ messages[1] = ToMessage(Dict("system", SYSTEM_MESSAGE))
        /\ messages[2] = ToMessage(Dict("user", question))
        /\ hist_before = <<>>
        /\ outcome = "done" =>
              conversation_history =
                  <<Dict("user", question), Dict("assistant", returned)>>

C7_Witness ==
    started_cleared > 0 /\ outcome = "done" /\ tool_rounds > 0

C10_SystemFirstAppendOnly ==
    nqueries > 0 =>
        /\ Len(messages) = Len(hist_before) + 2 + Len(outs)
        /\ messages[1].role = "system"
        /\ messages[1].content = SYSTEM_MESSAGE
        /\ Cardinality({i \in 1..Len(messages) : messages[i].role = "system"}) = 1
        /\ \A i \in DOMAIN hist_before :
               /\ messages[1 + i].role = hist_before[i].role
               /\ messages[1 + i].content = hist_before[i].content
               /\ messages[1 + i].tool_calls = <<>>
        /\ messages[Len(hist_before) + 2].role = "user"
        /\ messages[Len(hist_before) + 2].content = question
        /\ \A i \in DOMAIN outs :
               messages[Len(hist_before) + 2 + i] = outs[i]

C10_Witness ==
    hist_before # <<>> /\ Len(outs) >= 3 /\ tool_rounds > 0

\* The state query(q) hands to the graph when the history is `history`.
InitialState(history, q) ==
    [i \in 1..Len(history) + 2 |-> ToMessage(BuildMessages(history, q)[i])]

\* C11: a model call that raises ends the query at once (the model is not
\* called again for it), query returns nothing, and conversation_history is
\* what it was before the query, so that asking the same question again
\* starts from the same state as the failed query did.
C11_ModelFailureEndsQuery ==
    /\ model_failures <= 1
    /\ model_failures = 1 =>
           /\ pc = "idle"
           /\ outcome \in {"model_error", "cleared"}
           /\ returned = NoAnswer
    /\ outcome = "model_error" =>
           /\ model_failures = 1
           /\ conversation_history = hist_before
           /\ \A i \in 1..Len(hist_before) + 2 :
                  messages[i] = InitialState(conversation_history, question)[i]

C11_Witness ==
    outcome = "model_error" /\ hist_before # <<>> /\ tool_rounds > 0
====
